---- MODULE Spec2Model ----
(***************************************************************************)
(* The simulation core of rktl_sim/simulator.py: Car.update,               *)
(* Ball.decelerate, Game.checkGoal / reset / addObjects and the loop of    *)
(* Game.run.                                                               *)
(*                                                                         *)
(* Numbers are fixed point, so that every constant of the source is an     *)
(* integer:                                                                *)
(*   car velocities and impulses   in 1/2    of a source unit              *)
(*   ball velocities               in 1/50   of a source unit              *)
(*   positions                     in 1/1500 of a source unit              *)
(*   angles                        in degrees, multiples of 90, so that    *)
(*                                 cos and sin are exact                    *)
(*   angular velocity              multiplied by the turning radius         *)
(*   time                          in milliseconds                          *)
(* A vector is a pair <<x, y>>.                                             *)
(***************************************************************************)
EXTENDS Integers, Sequences, FiniteSets

\* ---------------------------------------------------------------- constants
CAR_MASS == 5
\* CAR_SPEED = 5, the impulse of the throttle, in half units
CAR_SPEED == 10
BRAKE_SPEED == 5
\* FREE_DECELERATION = 0.5, in half units
FREE_DECELERATION == 1
\* the literal 5 of "velocity.length < 5", in half units
REVERSE_LIMIT == 10
\* MAX_SPEED = 200, in half units
MAX_SPEED == 400

\* FIELD_WIDTH = 426.72, FIELD_HEIGHT = 304.8, GOAL_HEIGHT = 81.28,
\* GOAL_DEPTH = 25.4, in 1/1500
FIELD_WIDTH == 640080
FIELD_HEIGHT == 457200
GOAL_HEIGHT == 121920
GOAL_DEPTH == 38100
SIDE_WALL == (FIELD_HEIGHT - GOAL_HEIGHT) \div 2
BALL_POS == <<(FIELD_WIDTH + GOAL_DEPTH) \div 2, FIELD_HEIGHT \div 2>>
\* BALL_DECELERATION = 0.1, in 1/50
BALL_DECELERATION == 5
\* the 50 of "FIELD_HEIGHT / 2+50", in 1/1500
SPAWN_OFFSET == 75000
\* the 12 segments of static_lines
WALL_SEGMENTS == 12

K_UP == "K_UP"
K_DOWN == "K_DOWN"
K_SPACE == "K_SPACE"
K_LEFT == "K_LEFT"
K_RIGHT == "K_RIGHT"
Keys == {K_UP, K_DOWN, K_SPACE, K_LEFT, K_RIGHT}

\* ------------------------------------------------------------------- bounds
\* iterations of the loop of Game.run that a behaviour holds; the last one
\* ends before its physics step, whose outcome no later iteration would read
MaxTicks == 2

\* the key snapshots the runs are driven with: every throttle branch, every
\* turning branch, and the snapshots in which the if/elif order decides
KeyCombos ==
  { {}, {K_UP}, {K_DOWN}, {K_SPACE}, {K_UP, K_LEFT}, {K_DOWN, K_RIGHT}, Keys }

\* elapsed times clock.get_time() hands to the loop, in ms (0 before the
\* first clock.tick)
DtSet == {0, 100}

\* velocities a collision leaves a car with (half units): one with a lateral
\* part and an exact length of 17, one faster than MAX_SPEED (length 500)
CarBumps == { <<15, 8>>, <<300, 400>> }

\* velocities a collision leaves the ball with (1/50): one slower than
\* BALL_DECELERATION, one oblique with an exact length of 25
BallKicks == { <<2, 0>>, <<-15, -20>> }

\* places a contact carries the ball to: past each goal line inside the goal
\* mouth, past each goal line on the edge of the mouth, and on a goal line
BallPlaces ==
  { <<GOAL_DEPTH - 1500, FIELD_HEIGHT \div 2>>,
    <<GOAL_DEPTH - 1500, SIDE_WALL>>,
    <<GOAL_DEPTH, FIELD_HEIGHT \div 2>>,
    <<FIELD_WIDTH + 1500, FIELD_HEIGHT \div 2>>,
    <<FIELD_WIDTH + 1500, SIDE_WALL + GOAL_HEIGHT>> }

\* ------------------------------------------------------------------ vectors
Min(a, b) == IF a < b THEN a ELSE b
Max(a, b) == IF a < b THEN b ELSE a

Add(u, v) == <<u[1] + v[1], u[2] + v[2]>>
Scale(k, v) == <<k * v[1], k * v[2]>>
Dot(u, v) == u[1] * v[1] + u[2] * v[2]
Cross(u, v) == u[1] * v[2] - u[2] * v[1]

RECURSIVE SqrtSearch(_, _, _)
SqrtSearch(n, lo, hi) ==
  IF lo >= hi THEN lo
  ELSE LET mid == (lo + hi + 1) \div 2
       IN IF mid * mid <= n THEN SqrtSearch(n, mid, hi)
          ELSE SqrtSearch(n, lo, mid - 1)

\* the integer part of the square root
ISqrt(n) == SqrtSearch(n, 0, IF n < 1048576 THEN Min(n, 1023) ELSE 46340)

\* Vec2d.length, to the resolution of the fixed point (rounded down)
Length(v) == ISqrt(Dot(v, v))

\* cos and sin of an angle that is a multiple of 90 degrees
Cos(a) == CASE a % 360 = 0 -> 1 [] a % 360 = 180 -> -1 [] OTHER -> 0
Sin(a) == CASE a % 360 = 90 -> 1 [] a % 360 = 270 -> -1 [] OTHER -> 0

\* Vec2d.rotated(angle)
Rotated(v, a) ==
  <<v[1] * Cos(a) - v[2] * Sin(a), v[1] * Sin(a) + v[2] * Cos(a)>>

\* s * v.normalized(); normalized() of the zero vector is the zero vector
TimesNormalized(s, v) ==
  IF Length(v) = 0 THEN <<0, 0>>
  ELSE <<(s * v[1]) \div Length(v), (s * v[2]) \div Length(v)>>

\* --------------------------------------------------------------------- Car
\* Car.__init__: a body at rest at (x, y), facing `angle`, driving forwards.
\* `id` stands for the identity of the body and shape handed to space.add.
Car(id, x, y, angle) ==
  [ id |-> id,
    position |-> <<x, y>>,
    angle |-> angle,
    velocity |-> <<0, 0>>,
    angular_velocity |-> 0,
    steering |-> 0,
    reverse |-> 1 ]

\* body.apply_impulse_at_local_point(impulse): the impulse, given in the
\* frame of the body, acts on the centre of gravity, so it turns nothing
ApplyImpulseAtLocalPoint(self, impulse) ==
  [self EXCEPT !.velocity =
     Add(@, <<Rotated(impulse, self.angle)[1] \div CAR_MASS,
              Rotated(impulse, self.angle)[2] \div CAR_MASS>>)]

\* the forward direction of a car
ForwardDirection(self) == <<Cos(self.angle), Sin(self.angle)>>

\* Throttle without the speed test: up always selects forwards and down
\* always selects reverse, whatever the speed after the impulse
Throttle_FlipsAtAnySpeed(self, keys) ==
  LET impulse == Scale(CAR_SPEED, <<1, 0>>)
  IN IF K_UP \in keys THEN
       [(IF self.reverse = 1
         THEN ApplyImpulseAtLocalPoint(self, impulse)
         ELSE ApplyImpulseAtLocalPoint(self, Scale(BRAKE_SPEED, impulse)))
        EXCEPT !.reverse = 1]
     ELSE IF K_DOWN \in keys THEN
       [(IF self.reverse = -1
         THEN ApplyImpulseAtLocalPoint(self, Scale(-1, impulse))
         ELSE ApplyImpulseAtLocalPoint(self, Scale(-BRAKE_SPEED, impulse)))
        EXCEPT !.reverse = -1]
     ELSE IF K_SPACE \in keys THEN
       ApplyImpulseAtLocalPoint(self, Scale((-BRAKE_SPEED) * self.reverse, impulse))
     ELSE
       [self EXCEPT !.velocity =
          Scale((Length(self.velocity) - FREE_DECELERATION) * self.reverse,
                ForwardDirection(self))]

\* Car.update, the throttle: the if/elif over K_UP, K_DOWN, K_SPACE and the
\* free deceleration of the else branch
Throttle(self, keys) ==
  LET forward_direction == ForwardDirection(self)
      impulse == Scale(CAR_SPEED, <<1, 0>>)
  IN IF K_UP \in keys THEN
       LET pushed == IF self.reverse = 1
                     THEN ApplyImpulseAtLocalPoint(self, impulse)
                     ELSE ApplyImpulseAtLocalPoint(self, Scale(BRAKE_SPEED, impulse))
       IN IF Length(pushed.velocity) < REVERSE_LIMIT
          THEN [pushed EXCEPT !.reverse = 1]
          ELSE pushed
     ELSE IF K_DOWN \in keys THEN
       LET pushed == IF self.reverse = -1
                     THEN ApplyImpulseAtLocalPoint(self, Scale(-1, impulse))
                     ELSE ApplyImpulseAtLocalPoint(self, Scale(-BRAKE_SPEED, impulse))
       IN IF Length(pushed.velocity) < REVERSE_LIMIT
          THEN [pushed EXCEPT !.reverse = -1]
          ELSE pushed
     ELSE IF K_SPACE \in keys THEN
       IF self.reverse = -1
       THEN ApplyImpulseAtLocalPoint(self, Scale(BRAKE_SPEED, impulse))
       ELSE IF self.reverse = 1
       THEN ApplyImpulseAtLocalPoint(self, Scale(-BRAKE_SPEED, impulse))
       ELSE self
     ELSE
       [self EXCEPT !.velocity =
          Scale((Length(self.velocity) - FREE_DECELERATION) * self.reverse,
                forward_direction)]

\* Car.update, the turning: angular_velocity = +-length / turning_radius *
\* reverse, held here multiplied by the turning radius
Turning(self, keys) ==
  IF K_LEFT \in keys THEN
    [self EXCEPT !.angular_velocity = (-Length(self.velocity)) * self.reverse]
  ELSE IF K_RIGHT \in keys THEN
    [self EXCEPT !.angular_velocity = Length(self.velocity) * self.reverse]
  ELSE
    [self EXCEPT !.angular_velocity = 0]

\* the drift reset without the speed ceiling
ResetDrift_NoCeiling(self) ==
  [self EXCEPT !.velocity =
     Scale(self.reverse * Length(self.velocity), ForwardDirection(self))]

\* Car.update, the drift reset: the velocity is set along the facing angle
ResetDrift(self) ==
  [self EXCEPT !.velocity =
     Scale(self.reverse * Min(Length(self.velocity), MAX_SPEED),
           ForwardDirection(self))]

\* Car.update(keys)
update(self, keys) == ResetDrift(Turning(Throttle(self, keys), keys))

\* -------------------------------------------------------------------- Ball
\* Ball.__init__ with the default impulse (0, 0)
Ball(id, x, y) ==
  [ id |-> id, position |-> <<x, y>>, velocity |-> <<0, 0>> ]

\* Ball.decelerate
decelerate(self) ==
  [self EXCEPT !.velocity =
     TimesNormalized(Length(self.velocity) - BALL_DECELERATION, self.velocity)]

\* Ball.getPos
getPos(self) == self.position

\* -------------------------------------------------------------------- Game
\* Game.__init__(walls); `created` counts the bodies made so far and gives
\* each new body its identity
Game(walls) ==
  [ leftscore |-> 0,
    rightscore |-> 0,
    ticks |-> 60,
    walls |-> walls,
    exit |-> FALSE,
    gameSpace |-> {},
    created |-> 0 ]

\* Game.addObjects: a new ball and two new cars, each added to the space by
\* its constructor
addObjects(self) ==
  LET n == self.created
      ball == Ball(<<"ball", n + 1>>, BALL_POS[1], BALL_POS[2])
      cars == << Car(<<"car", n + 2>>,
                     (FIELD_WIDTH + GOAL_DEPTH) \div 3, FIELD_HEIGHT \div 2, 0),
                 Car(<<"car", n + 3>>,
                     (2 * (FIELD_WIDTH + GOAL_DEPTH)) \div 3,
                     FIELD_HEIGHT \div 2 + SPAWN_OFFSET, 180) >>
  IN [ leftscore |-> self.leftscore,
       rightscore |-> self.rightscore,
       ticks |-> self.ticks,
       walls |-> self.walls,
       exit |-> self.exit,
       gameSpace |-> self.gameSpace \cup {ball.id, cars[1].id, cars[2].id},
       created |-> n + 3,
       ball |-> ball,
       cars |-> cars ]

\* reset that leaves the old bodies in the space
reset_KeepsOldBodies(self) == addObjects(self)

\* Game.reset: the cars and the ball leave the space, then addObjects
reset(self) ==
  addObjects([self EXCEPT !.gameSpace =
                (@ \ {self.cars[c].id : c \in DOMAIN self.cars}) \ {self.ball.id}])

\* checkGoal with the two scores exchanged
checkGoal_ScoresExchanged(self, ball, leftgoal, rightgoal, topgoal, botgoal) ==
  IF getPos(ball)[1] < leftgoal THEN
    IF getPos(ball)[2] > topgoal /\ getPos(ball)[2] < botgoal
    THEN reset([self EXCEPT !.leftscore = @ + 1])
    ELSE reset(self)
  ELSE IF getPos(ball)[1] > rightgoal THEN
    IF getPos(ball)[2] > topgoal /\ getPos(ball)[2] < botgoal
    THEN reset([self EXCEPT !.rightscore = @ + 1])
    ELSE reset(self)
  ELSE self

\* checkGoal with reset() inside the test of the goal mouth
checkGoal_ResetOnGoalOnly(self, ball, leftgoal, rightgoal, topgoal, botgoal) ==
  IF getPos(ball)[1] < leftgoal THEN
    IF getPos(ball)[2] > topgoal /\ getPos(ball)[2] < botgoal
    THEN reset([self EXCEPT !.rightscore = @ + 1])
    ELSE self
  ELSE IF getPos(ball)[1] > rightgoal THEN
    IF getPos(ball)[2] > topgoal /\ getPos(ball)[2] < botgoal
    THEN reset([self EXCEPT !.leftscore = @ + 1])
    ELSE self
  ELSE self

\* checkGoal that counts a goal for both sides
checkGoal_BothScores(self, ball, leftgoal, rightgoal, topgoal, botgoal) ==
  IF getPos(ball)[1] < leftgoal \/ getPos(ball)[1] > rightgoal THEN
    IF getPos(ball)[2] > topgoal /\ getPos(ball)[2] < botgoal
    THEN reset([self EXCEPT !.leftscore = @ + 1, !.rightscore = @ + 1])
    ELSE reset(self)
  ELSE self

\* Game.checkGoal(ball, leftgoal, rightgoal, topgoal, botgoal)
checkGoal(self, ball, leftgoal, rightgoal, topgoal, botgoal) ==
  IF getPos(ball)[1] < leftgoal THEN
    IF getPos(ball)[2] > topgoal /\ getPos(ball)[2] < botgoal
    THEN reset([self EXCEPT !.rightscore = @ + 1])
    ELSE reset(self)
  ELSE IF getPos(ball)[1] > rightgoal THEN
    IF getPos(ball)[2] > topgoal /\ getPos(ball)[2] < botgoal
    THEN reset([self EXCEPT !.leftscore = @ + 1])
    ELSE reset(self)
  ELSE self

\* Game.run, before the loop: addObjects and, with walls, the static lines
Setup(self) ==
  LET made == addObjects(self)
  IN IF self.walls
     THEN [made EXCEPT !.gameSpace =
             @ \cup {<<"segment", k>> : k \in 1..WALL_SEGMENTS}]
     ELSE made

\* Game.run, "for c in self.cars: c.update(pressed)"
UpdateAll(self, keys) ==
  [self EXCEPT !.cars = [c \in DOMAIN self.cars |-> update(self.cars[c], keys)]]

\* Game.run, "self.ball.decelerate()"
DecelerateBall(self) == [self EXCEPT !.ball = decelerate(self.ball)]

\* the goal check run whether or not the walls are on
GoalCheck_IgnoresWalls(self) ==
  checkGoal(self, self.ball, GOAL_DEPTH, FIELD_WIDTH, SIDE_WALL,
            SIDE_WALL + GOAL_HEIGHT)

\* Game.run, "if self.walls: self.checkGoal(...)"
GoalCheck(self) ==
  IF self.walls
  THEN checkGoal(self, self.ball, GOAL_DEPTH, FIELD_WIDTH, SIDE_WALL,
                 SIDE_WALL + GOAL_HEIGHT)
  ELSE self

\* ----------------------------------------------------- the physics engine
Sign(x) == IF x > 0 THEN 1 ELSE IF x < 0 THEN -1 ELSE 0

\* a car after dt ms with nothing in its way: position += velocity * dt and
\* angle += angular_velocity * dt, the angle at the granularity of the model
\* (a quarter turn in the sense of the angular velocity)
MoveCar(c, dt) ==
  [c EXCEPT !.position = Add(@, <<(3 * dt * c.velocity[1]) \div 4,
                                  (3 * dt * c.velocity[2]) \div 4>>),
            !.angle = (@ + 90 * Sign(c.angular_velocity)) % 360]

\* the ball after dt ms with nothing in its way
MoveBall(b, dt) ==
  [b EXCEPT !.position = Add(@, <<(3 * dt * b.velocity[1]) \div 100,
                                  (3 * dt * b.velocity[2]) \div 100>>)]

\* gameSpace.step(dt): the states the engine can leave the bodies in. A step
\* of no time changes nothing. Otherwise every body moves, and at most one
\* contact is resolved: it leaves a car with another velocity, the ball with
\* another velocity, or the ball in another place.
step(self, dt) ==
  IF dt = 0 THEN {self}
  ELSE LET moved == [self EXCEPT
                       !.cars = [c \in DOMAIN self.cars |-> MoveCar(self.cars[c], dt)],
                       !.ball = MoveBall(self.ball, dt)]
       IN {moved}
          \cup {[moved EXCEPT !.cars[c].velocity = v] :
                  c \in DOMAIN self.cars, v \in CarBumps}
          \cup {[moved EXCEPT !.ball.velocity = v] : v \in BallKicks}
          \cup {[moved EXCEPT !.ball.position = p] : p \in BallPlaces}

\* ------------------------------------------------------------------- state
VARIABLES
  game,     \* the Game object, with its cars, its ball and its space
  pc,       \* where Game.run stands
  pressed,  \* the key snapshot of the iteration
  tick      \* iterations of the loop completed

vars == <<game, pc, pressed, tick>>

Init ==
  /\ game \in {Game(walls) : walls \in BOOLEAN}
  /\ pc = "run"
  /\ pressed = {}
  /\ tick = 0

\* Game.run up to the loop
Run ==
  /\ pc = "run"
  /\ game' = Setup(game)
  /\ pc' = "events"
  /\ UNCHANGED <<pressed, tick>>

\* "while not self.exit" and the quit event
Events ==
  /\ pc = "events"
  /\ ~game.exit
  /\ tick < MaxTicks
  /\ \E quit \in BOOLEAN : game' = [game EXCEPT !.exit = quit]
  /\ pc' = "update"
  /\ UNCHANGED <<pressed, tick>>

\* the key snapshot and the update of every car
UpdateCars ==
  /\ pc = "update"
  /\ \E keys \in KeyCombos :
       /\ pressed' = keys
       /\ game' = UpdateAll(game, keys)
  /\ pc' = "decelerate"
  /\ UNCHANGED tick

Decelerate ==
  /\ pc = "decelerate"
  /\ game' = DecelerateBall(game)
  /\ pc' = "checkGoal"
  /\ UNCHANGED <<pressed, tick>>

CheckGoal ==
  /\ pc = "checkGoal"
  /\ game' = GoalCheck(game)
  /\ pc' = "step"
  /\ UNCHANGED <<pressed, tick>>

\* gameSpace.step(self.dt) and clock.tick: the end of an iteration
Step ==
  /\ pc = "step"
  /\ tick + 1 < MaxTicks
  /\ \E dt \in DtSet : game' \in step(game, dt)
  /\ pc' = "events"
  /\ tick' = tick + 1
  /\ UNCHANGED pressed

\* the loop ends: pygame.quit()
Quit ==
  /\ pc = "events"
  /\ game.exit
  /\ pc' = "done"
  /\ UNCHANGED <<game, pressed, tick>>

Next == Run \/ Events \/ UpdateCars \/ Decelerate \/ CheckGoal \/ Step \/ Quit

Spec == Init /\ [][Next]_vars

\* ------------------------------------------------------------------ claims
Cars == 1..2
KeySnapshots == SUBSET Keys

Speed(body) == Length(body.velocity)

\* the throttle axis of a key snapshot
IsIdle(keys) == K_UP \notin keys /\ K_DOWN \notin keys /\ K_SPACE \notin keys
IsHandbrake(keys) == K_SPACE \in keys /\ K_UP \notin keys /\ K_DOWN \notin keys

\* the spawn poses of addObjects: the ball, then each car's position, facing
\* angle and reverse sign
SpawnPoses ==
  << BALL_POS,
     << <<(FIELD_WIDTH + GOAL_DEPTH) \div 3, FIELD_HEIGHT \div 2>>, 0, 1 >>,
     << <<(2 * (FIELD_WIDTH + GOAL_DEPTH)) \div 3,
          FIELD_HEIGHT \div 2 + SPAWN_OFFSET>>, 180, 1 >> >>

Poses(g) ==
  << g.ball.position,
     << g.cars[1].position, g.cars[1].angle, g.cars[1].reverse >>,
     << g.cars[2].position, g.cars[2].angle, g.cars[2].reverse >> >>

\* the bodies of one kind that a space holds
Held(g, kind) == {b \in g.gameSpace : b[1] = kind}

PastLeftLine(g) == g.ball.position[1] < GOAL_DEPTH
PastRightLine(g) == g.ball.position[1] > FIELD_WIDTH
InGoalMouth(g) ==
  g.ball.position[2] > SIDE_WALL /\ g.ball.position[2] < SIDE_WALL + GOAL_HEIGHT

\* C1, as stated: whenever Car.update changes the reverse sign of a car, the
\* speed of the car at the start of the call was below 5.
C1_FlipOnlyBelowLimitAtStart ==
  pc = "update" =>
    \A keys \in KeySnapshots, c \in Cars :
      update(game.cars[c], keys).reverse # game.cars[c].reverse
        => Speed(game.cars[c]) < REVERSE_LIMIT

\* C1, amended: whenever Car.update changes the reverse sign of a car, the
\* speed of the car right after the throttle impulse of that call was below 5.
C1_FlipOnlyBelowLimitAfterImpulse ==
  pc = "update" =>
    \A keys \in KeySnapshots, c \in Cars :
      update(game.cars[c], keys).reverse # game.cars[c].reverse
        => Speed(Throttle(game.cars[c], keys)) < REVERSE_LIMIT

\* C1, witness: an update has turned the first car into reverse.
C1_Flipped == pc = "decelerate" /\ game.cars[1].reverse = -1

\* C2: after Ball.decelerate the speed of the ball is
\* max(0, prior speed - BALL_DECELERATION) and its velocity still points the
\* way it did.
C2_BallSpeedClamped ==
  pc = "decelerate" =>
    LET before == game.ball
        after == decelerate(before)
    IN /\ Speed(after) = Max(0, Speed(before) - BALL_DECELERATION)
       /\ Cross(after.velocity, before.velocity) = 0
       /\ Dot(after.velocity, before.velocity) >= 0

\* C3: after Car.update with no throttle key held the speed of the car is
\* max(0, prior speed - FREE_DECELERATION).
C3_IdleSpeedClamped ==
  pc = "update" =>
    \A keys \in KeySnapshots, c \in Cars :
      IsIdle(keys) =>
        Speed(update(game.cars[c], keys))
          = Max(0, Speed(game.cars[c]) - FREE_DECELERATION)

\* C4: checkGoal with the ball past the left goal line and inside the goal
\* mouth adds exactly 1 to rightscore and leaves leftscore; past the right
\* goal line it adds exactly 1 to leftscore and leaves rightscore; in both
\* cases the ball and the cars are at their spawn poses afterwards.
C4_GoalScoresOnce ==
  [][ (pc = "checkGoal" /\ game.walls /\ InGoalMouth(game)) =>
        /\ PastLeftLine(game) =>
             /\ game'.rightscore = game.rightscore + 1
             /\ game'.leftscore = game.leftscore
             /\ Poses(game') = SpawnPoses
        /\ PastRightLine(game) =>
             /\ game'.leftscore = game.leftscore + 1
             /\ game'.rightscore = game.rightscore
             /\ Poses(game') = SpawnPoses ]_vars

\* C4, witness: a goal on the left side has been counted and the field reset.
C4_RightScored ==
  pc = "step" /\ game.rightscore = 1 /\ game.leftscore = 0
    /\ Poses(game) = SpawnPoses

\* C5: checkGoal with the ball past a goal line resets whatever the y of the
\* ball; outside the goal mouth both scores stay and the ball and the cars
\* are new and at their spawn poses. With the ball past neither line
\* checkGoal changes nothing.
C5_ResetPastLine ==
  [][ (pc = "checkGoal" /\ game.walls) =>
        /\ (PastLeftLine(game) \/ PastRightLine(game)) =>
             /\ game'.created = game.created + 3
             /\ game'.ball.id # game.ball.id
             /\ \A c \in Cars : game'.cars[c].id # game.cars[c].id
             /\ Poses(game') = SpawnPoses
             /\ ~InGoalMouth(game) =>
                  /\ game'.leftscore = game.leftscore
                  /\ game'.rightscore = game.rightscore
        /\ ~(PastLeftLine(game) \/ PastRightLine(game)) => game' = game ]_vars

\* C5, witness: the field has been reset without a goal.
C5_ResetWithoutGoal ==
  pc = "step" /\ game.created = 6 /\ game.leftscore = 0 /\ game.rightscore = 0

\* C6: without walls the scores stay at 0 and the ball and the cars stay the
\* objects that run() made, wherever the ball is.
C6_NoWallsNoGoalCheck ==
  (pc # "run" /\ ~game.walls) =>
    /\ game.leftscore = 0
    /\ game.rightscore = 0
    /\ game.created = 3
    /\ game.ball.id = <<"ball", 1>>
    /\ game.cars[1].id = <<"car", 2>>
    /\ game.cars[2].id = <<"car", 3>>
    /\ game.gameSpace = {<<"ball", 1>>, <<"car", 2>>, <<"car", 3>>}

\* C6, witness: without walls the goal check was passed with the ball past a
\* goal line and inside the goal mouth.
C6_BallPastLineNoWalls ==
  pc = "step" /\ ~game.walls /\ PastLeftLine(game) /\ InGoalMouth(game)

\* C7: after Car.update the velocity of the car has no part across its
\* forward direction, points along forward direction * reverse sign, and is
\* no longer than MAX_SPEED.
C7_VelocityAlongFacing ==
  pc = "update" =>
    \A keys \in KeySnapshots, c \in Cars :
      LET after == update(game.cars[c], keys)
      IN /\ Cross(after.velocity, ForwardDirection(after)) = 0
         /\ Dot(after.velocity, Scale(after.reverse, ForwardDirection(after))) >= 0
         /\ Speed(after) <= MAX_SPEED

\* C7, witness: an update has cut the velocity a collision left, which had a
\* part across the forward direction and was longer than MAX_SPEED, down to
\* MAX_SPEED along the facing angle.
C7_ClampedAfterBump ==
  pc = "decelerate" /\ game.cars[1].velocity = <<MAX_SPEED, 0>>

\* C8: the scores are never negative and never decrease; reset leaves them;
\* only the goal check of a tick changes them, raising one of them by 1.
C8_ScoresMonotone ==
  [][ /\ game.leftscore >= 0 /\ game.rightscore >= 0
      /\ game'.leftscore >= game.leftscore
      /\ game'.rightscore >= game.rightscore
      /\ (game'.leftscore + game'.rightscore)
           - (game.leftscore + game.rightscore) <= 1
      /\ <<game'.leftscore, game'.rightscore>>
           # <<game.leftscore, game.rightscore>> => pc = "checkGoal"
      /\ pc # "run" =>
           /\ reset(game).leftscore = game.leftscore
           /\ reset(game).rightscore = game.rightscore ]_vars

\* C8, witness: the goal check of a tick has counted a goal on the right
\* side for the left side, and for nobody else.
C8_GoalCounted == pc = "step" /\ game.leftscore = 1 /\ game.rightscore = 0

\* C9: reset puts the ball and the cars at their spawn poses whatever the
\* state before, a second reset gives the same poses, and the space then
\* holds exactly the one new ball and the two new cars.
C9_ResetIdempotent ==
  pc # "run" =>
    LET once == reset(game)
        twice == reset(once)
    IN /\ Poses(once) = SpawnPoses
       /\ Poses(twice) = Poses(once)
       /\ \A g \in {once, twice} :
            /\ Held(g, "ball") = {g.ball.id}
            /\ Held(g, "car") = {g.cars[1].id, g.cars[2].id}
            /\ Cardinality(Held(g, "car")) = 2

\* C9, witness: the goal check is about to reset a field whose first car has
\* left its spawn position and drives in reverse.
C9_ResetFromDisplaced ==
  /\ pc = "checkGoal" /\ game.walls /\ PastRightLine(game)
  /\ game.cars[1].reverse = -1
  /\ game.cars[1].position # SpawnPoses[2][1]

\* C10: Car.update with the handbrake held (space, neither up nor down) does
\* not raise the speed of the car.
C10_HandbrakeOnlySlows ==
  pc = "update" =>
    \A keys \in KeySnapshots, c \in Cars :
      IsHandbrake(keys) =>
        Speed(update(game.cars[c], keys)) <= Speed(game.cars[c])

====
